---- MODULE Spec2Model ----
(***************************************************************************)
(* Model of src/src/components/Map/Map.tsx: the React component `Map`.     *)
(*                                                                         *)
(* The component's state is its useState cells and its two refs.  React    *)
(* is modelled as the scheduler it is for this component: a state setter   *)
(* schedules a render; a render takes a snapshot of the state (the values  *)
(* the closures of that render see), and the commit that follows runs the  *)
(* cleanup of an effect whose dependencies changed and then the effects    *)
(* themselves, in source order.  JavaScript runs every handler to          *)
(* completion, so a handler, an effect or the resumption of an async       *)
(* function after its await is one action.                                 *)
(*                                                                         *)
(* Numbers are IEEE 754 doubles, and parseFloat, + and - round to the      *)
(* nearest one as the language does (2.35 + 0.18 is 2.5300000000000002).   *)
(* Strings that the code parses or trims are sequences of characters.      *)
(***************************************************************************)
EXTENDS Integers, Sequences, FiniteSets, TLC

\* ---------------------------------------------------------------- bounds
MaxMaps == 2        \* map objects constructed in one run
MaxFetches == 2     \* air-quality requests issued in one run
MaxSearches == 1    \* geocoding requests issued in one run
MaxSearchesAlone == 2   \* the same, in the runs of search and selection
MaxLoad == 5        \* maps constructed and requests issued, together, in one run
MaxBatch == 2       \* readings in a batch handed to the reconciliation alone
MaxPrior == 1       \* reading markers already on the map, reconciliation alone

\* ------------------------------------------------------------ JS values
\* A JS value is a record of its type t and its value v.  A finite number
\* is the IEEE 754 double (-1)^neg * m * 2^e: m is a natural number below
\* 2^53, written as the sequence of its decimal digits (<<>> is zero), and
\* e is an integer from -1074 to 971; m is at least 2^52 unless e is
\* -1074, and e is 0 when m is zero.  So 0.18 is
\* 6485183463413514 * 2^-55 and 48.85 is 6875169209144115 * 2^-47.
Double(neg, m, e) == [t |-> "number", v |-> [neg |-> neg, m |-> m, e |-> e]]
\* +0 and -0
Zero(neg) == Double(neg, <<>>, 0)
Str(n) == [t |-> "string", v |-> n]
NaN == [t |-> "NaN", v |-> 0]
\* Infinity (sign 1) and -Infinity (sign -1)
Infinity(sign) == [t |-> "Infinity", v |-> sign]
Undefined == [t |-> "undefined", v |-> 0]

\* typeof x
TypeOf(x) == IF x.t \in {"NaN", "Infinity"} THEN "number" ELSE x.t

\* ------------------------------------------------------------- strings
\* a string is the sequence of its characters; a character of ASCII is
\* written as itself and any other character by its code point, as "U+00E9"

\* the white space and line terminators String.prototype.trim and parseFloat
\* strip: tab, line feed, form feed, carriage return, space, vertical tab,
\* no-break space, byte order mark and the space separators
IsSpace(c) ==
    c \in {"\t", "\n", "\f", "\r", " ", "",
       "U+00A0", "U+FEFF", "U+1680", "U+2000", "U+2001", "U+2002",
       "U+2003", "U+2004", "U+2005", "U+2006", "U+2007", "U+2008",
       "U+2009", "U+200A", "U+2028", "U+2029", "U+202F", "U+205F",
       "U+3000"}

\* s without the white space at its front, and at its end
TrimStart(s) ==
    IF \A i \in 1..Len(s) : IsSpace(s[i]) THEN <<>>
    ELSE SubSeq(s, CHOOSE i \in 1..Len(s) :
                       ~IsSpace(s[i]) /\ \A j \in 1..(i - 1) : IsSpace(s[j]),
                Len(s))

TrimEnd(s) ==
    IF \A i \in 1..Len(s) : IsSpace(s[i]) THEN <<>>
    ELSE SubSeq(s, 1, CHOOSE i \in 1..Len(s) :
                          ~IsSpace(s[i]) /\ \A j \in (i + 1)..Len(s) : IsSpace(s[j]))

\* String.prototype.trim
Trim(s) == TrimEnd(TrimStart(s))

Digits == {"0", "1", "2", "3", "4", "5", "6", "7", "8", "9"}

DigitVal(c) ==
    CASE c = "0" -> 0 [] c = "1" -> 1 [] c = "2" -> 2 [] c = "3" -> 3
      [] c = "4" -> 4 [] c = "5" -> 5 [] c = "6" -> 6 [] c = "7" -> 7
      [] c = "8" -> 8 [] c = "9" -> 9

\* the longest prefix of s made of digits
DigitPrefix(s) ==
    IF \A i \in 1..Len(s) : s[i] \in Digits THEN s
    ELSE SubSeq(s, 1, (CHOOSE i \in 1..Len(s) :
                           s[i] \notin Digits /\ \A j \in 1..(i - 1) : s[j] \in Digits) - 1)

\* ------------------------------------------------------ natural numbers
\* A natural number of any size is the sequence of its decimal digits, the
\* most significant first and not 0; zero is <<>>.

\* the digits of the characters of s
Ints(s) == [i \in 1..Len(s) |-> DigitVal(s[i])]

Zeros(n) == [i \in 1..n |-> 0]

\* x without the zeros at its front
StripZeros(x) ==
    IF \A i \in 1..Len(x) : x[i] = 0 THEN <<>>
    ELSE SubSeq(x, CHOOSE i \in 1..Len(x) : x[i] # 0 /\ \A j \in 1..(i - 1) : x[j] = 0,
                Len(x))

\* the digits of the integer n, 0 <= n < 2^31
NatDigits(n) == StripZeros([i \in 1..10 |-> (n \div 10^(10 - i)) % 10])

\* x without the zeros at its end
StripZerosEnd(x) ==
    IF \A i \in 1..Len(x) : x[i] = 0 THEN <<>>
    ELSE SubSeq(x, 1, CHOOSE i \in 1..Len(x) :
                          x[i] # 0 /\ \A j \in (i + 1)..Len(x) : x[j] = 0)

\* x < y
Less(x, y) ==
    \/ Len(x) < Len(y)
    \/ /\ Len(x) = Len(y)
       /\ \E i \in 1..Len(x) : x[i] < y[i] /\ \A j \in 1..(i - 1) : x[j] = y[j]

\* the digits high in front of the digits low, and what is carried out
Joined(high, low) == [d |-> high.d \o low.d, carry |-> high.carry]

\* the digits of x * c + cin, as many as x has, and what is carried out of
\* them; c is at most 2^27, so that no product leaves 32 bits. The digits
\* at the end are done first, and their carry goes into the ones in front.
RECURSIVE MulCarry(_, _, _)
MulHigh(x, c, low) ==
    IF low.carry = 0 /\ x = <<0>> THEN Joined([d |-> x, carry |-> 0], low)
    ELSE Joined(MulCarry(x, c, low.carry), low)
MulCarry(x, c, cin) ==
    IF Len(x) > 1
    THEN MulHigh(SubSeq(x, 1, Len(x) \div 2), c,
                 MulCarry(SubSeq(x, Len(x) \div 2 + 1, Len(x)), c, cin))
    ELSE IF Len(x) = 1
         THEN [d |-> <<(x[1] * c + cin) % 10>>, carry |-> (x[1] * c + cin) \div 10]
    ELSE [d |-> <<>>, carry |-> cin]

\* the number of digits r.d and the carry r.carry in front of them
Carried(r) == StripZeros(NatDigits(r.carry) \o r.d)

\* x * c
MulSmall(x, c) == Carried(MulCarry(x, c, 0))

\* x * c^n
RECURSIVE Times(_, _, _)
Times(x, c, n) ==
    IF x = <<>> \/ n = 0 THEN x
    ELSE IF n = 1 THEN MulSmall(x, c)
    ELSE Times(Times(x, c, n \div 2), c, n - n \div 2)

\* x * 2^n and x * 5^n, by 2^27 and 5^11 at a time
Scale2(x, n) == Times(MulSmall(x, 2^(n % 27)), 134217728, n \div 27)
Scale5(x, n) == Times(MulSmall(x, 5^(n % 11)), 48828125, n \div 11)

\* the digits of x + y + cin for x and y of one length, and the carry
RECURSIVE AddCarry(_, _, _)
AddHigh(x, y, low) ==
    IF low.carry = 0 /\ y = <<0>> THEN Joined([d |-> x, carry |-> 0], low)
    ELSE Joined(AddCarry(x, y, low.carry), low)
AddCarry(x, y, cin) ==
    IF Len(x) > 1
    THEN AddHigh(SubSeq(x, 1, Len(x) \div 2), SubSeq(y, 1, Len(y) \div 2),
                 AddCarry(SubSeq(x, Len(x) \div 2 + 1, Len(x)),
                          SubSeq(y, Len(y) \div 2 + 1, Len(y)), cin))
    ELSE IF Len(x) = 1
         THEN [d |-> <<(x[1] + y[1] + cin) % 10>>, carry |-> (x[1] + y[1] + cin) \div 10]
    ELSE [d |-> <<>>, carry |-> cin]

\* x with zeros at its front, n digits in all
Pad(x, n) == Zeros(n - Len(x)) \o x

\* x + y for x not shorter than y
AddLong(x, y) == Carried(AddCarry(x, Pad(y, Len(x)), 0))

\* x + y
AddNat(x, y) ==
    AddLong(IF Len(x) >= Len(y) THEN x ELSE y, IF Len(x) >= Len(y) THEN y ELSE x)

\* the digits 9 - y[i]
Nines(y) == [i \in 1..Len(y) |-> 9 - y[i]]

\* x - y for x >= y: x plus the nines' complement of y plus one, without
\* the carry
SubNat(x, y) == StripZeros(AddCarry(x, Nines(Pad(y, Len(x))), 1).d)

\* the difference of x and y
Differ(x, y) == SubNat(IF Less(y, x) THEN x ELSE y, IF Less(y, x) THEN y ELSE x)

\* floor(x / 10^n) and the n digits it leaves out
Quot(x, n) == IF Len(x) > n THEN SubSeq(x, 1, Len(x) - n) ELSE <<>>
Rest(x, n) == IF Len(x) >= n THEN SubSeq(x, Len(x) - n + 1, Len(x)) ELSE Pad(x, n)

\* ------------------------------------------------------------- rounding
\* how the fraction 0.r compares with one half, for at least one digit r
Class(r) ==
    IF r[1] > 5 \/ (r[1] = 5 /\ \E i \in 2..Len(r) : r[i] # 0) THEN "more"
    ELSE IF r[1] = 5 THEN "half"
    ELSE IF \A i \in 1..Len(r) : r[i] = 0 THEN "zero"
    ELSE "less"

\* the same for (q + f) / 2^j, where j >= 1, q / 2^j is of class c and the
\* fraction f is of class F
Combine(c, F) ==
    IF c = "more" THEN "more"
    ELSE IF c = "half" THEN (IF F = "zero" THEN "half" ELSE "more")
    ELSE IF c = "zero" /\ F = "zero" THEN "zero"
    ELSE "less"

\* 2^52 to 2^56
TwoTo52 == <<4, 5, 0, 3, 5, 9, 9, 6, 2, 7, 3, 7, 0, 4, 9, 6>>
TwoTo53 == <<9, 0, 0, 7, 1, 9, 9, 2, 5, 4, 7, 4, 0, 9, 9, 2>>
TwoTo54 == <<1, 8, 0, 1, 4, 3, 9, 8, 5, 0, 9, 4, 8, 1, 9, 8, 4>>
TwoTo55 == <<3, 6, 0, 2, 8, 7, 9, 7, 0, 1, 8, 9, 6, 3, 9, 6, 8>>
TwoTo56 == <<7, 2, 0, 5, 7, 5, 9, 4, 0, 3, 7, 9, 2, 7, 9, 3, 6>>

\* the double of sign neg and magnitude m * 2^e, for m up to 2^53
Boxed(neg, m, e) ==
    IF m = <<>> THEN Zero(neg)
    ELSE IF m = TwoTo53
         THEN (IF e + 1 > 971 THEN Infinity(IF neg THEN 0 - 1 ELSE 1)
               ELSE Double(neg, TwoTo52, e + 1))
    ELSE IF e > 971 THEN Infinity(IF neg THEN 0 - 1 ELSE 1)
    ELSE Double(neg, m, e)

\* round to nearest, ties to even: the double nearest to (m + f) * 2^e for
\* m below 2^53 and a fraction f of class F
Rounded(neg, m, F, e) ==
    Boxed(neg,
          IF F = "more" \/ (F = "half" /\ m # <<>> /\ m[Len(m)] % 2 = 1)
          THEN AddNat(m, <<1>>) ELSE m,
          e)

\* the same for (S / 10^j + f) * 2^(e + j), where j >= 1
Cut(neg, S, j, F, e) ==
    Rounded(neg, Quot(S, j), Combine(Class(Rest(S, j)), F), e + j)

\* the same for m from 2^53 to below 2^57: the j bits of m above the 53rd
\* go to the fraction, as m / 2^j = m * 5^j / 10^j
Halved(neg, m, j, F, e) == Cut(neg, Scale5(m, j), j, F, e)

\* how many bits m, from 2^53 to below 2^57, has above the 53rd
Excess(m) ==
    IF Less(m, TwoTo54) THEN 1 ELSE IF Less(m, TwoTo55) THEN 2
    ELSE IF Less(m, TwoTo56) THEN 3 ELSE 4

\* the same for m below 2^57: a significand below 2^53 is rounded as it is
Sized(neg, m, F, e) ==
    IF Less(m, TwoTo53) THEN Rounded(neg, m, F, e)
    ELSE Halved(neg, m, Excess(m), F, e)

\* the same for the magnitude n * 10^s * 2^e below 2^57 * 2^e
Shifted(neg, n, s, e) ==
    Sized(neg,
          IF s >= 0 THEN n \o Zeros(s) ELSE Quot(n, 0 - s),
          IF s >= 0 THEN "zero" ELSE Class(Rest(n, 0 - s)),
          e)

\* an integer not above q * log2(10), and above it less one and a hundredth
LogFloor(q) ==
    IF q >= 0 THEN (q * 332192) \div 100000
    ELSE 0 - (((0 - q) * 332193 + 99999) \div 100000)

\* the same for the magnitude d * 10^k * 2^b, which is 2^a times
\* d * 10^k / 2^(a - b): the division is a multiplication by a power of
\* 5 and a shift of the decimal point
Divided(neg, d, k, b, a) ==
    IF a >= b THEN Shifted(neg, Scale5(d, a - b), k - (a - b), a)
    ELSE Shifted(neg, Scale2(d, b - a), k, a)

\* an exponent e with 2^(e + 52) not above d * 10^k * 2^b
Below52(d, k, b) == b + LogFloor(Len(d) + k - 1) - 52

\* the double nearest to (-1)^neg * d * 10^k * 2^b, for d > 0: its
\* exponent is Below52 or a little more, or -1074 where the doubles end
Nearest(neg, d, k, b) ==
    Divided(neg, d, k, b,
            IF Below52(d, k, b) < 0 - 1074 THEN 0 - 1074 ELSE Below52(d, k, b))

\* the number a literal of the source stands for: the double nearest to
\* n / 10^k, as 39.8283 is Decimal(398283, 4)
Decimal(n, k) ==
    IF n = 0 THEN Zero(FALSE)
    ELSE Nearest(n < 0, NatDigits(IF n < 0 THEN 0 - n ELSE n), 0 - k, 0)

\* the same for n hundredths
Num(n) == Decimal(n, 2)

\* the number d * 10^k for d > 0 without zeros at its end: beyond the
\* largest double it is Infinity, below the smallest one it is 0
Normal(d, k) ==
    IF Len(d) + k > 309 THEN Infinity(1)
    ELSE IF Len(d) + k < 0 - 323 THEN Zero(FALSE)
    ELSE Nearest(FALSE, d, k, 0)

Stripped(d, k) ==
    IF d = <<>> THEN Zero(FALSE)
    ELSE Normal(StripZerosEnd(d), k + Len(d) - Len(StripZerosEnd(d)))

\* the number whose decimal digits are the characters d with the point
\* after the first `point` of them
Scaled(d, point) == Stripped(StripZeros(Ints(d)), point - Len(d))

\* -b
Neg(b) ==
    IF b.t = "NaN" THEN NaN
    ELSE IF b.t = "Infinity" THEN Infinity(0 - b.v)
    ELSE Double(~b.v.neg, b.v.m, b.v.e)

\* the sum of the magnitudes x * 2^e of sign xn and y * 2^e of sign yn
Summed(xn, x, yn, y, e) ==
    IF xn # yn /\ x = y THEN Zero(FALSE)
    ELSE Nearest(IF xn = yn \/ Less(y, x) THEN xn ELSE yn,
                 IF xn = yn THEN AddNat(x, y) ELSE Differ(x, y),
                 0, e)

\* x + y for x.e >= y.e: beyond 55 bits of distance y is less than an
\* eighth of the last bit of x
Aligned(x, y) ==
    IF x.e - y.e > 55 THEN Double(x.neg, x.m, x.e)
    ELSE Summed(x.neg, Scale2(x.m, x.e - y.e), y.neg, y.m, y.e)

\* x + y for the finite x and y
Plus(x, y) ==
    IF x.m = <<>> /\ y.m = <<>> THEN Zero(x.neg /\ y.neg)
    ELSE IF y.m = <<>> THEN Double(x.neg, x.m, x.e)
    ELSE IF x.m = <<>> THEN Double(y.neg, y.m, y.e)
    ELSE Aligned(IF x.e >= y.e THEN x ELSE y, IF x.e >= y.e THEN y ELSE x)

\* a + b and a - b on JS numbers
Add(a, b) ==
    IF a.t = "NaN" \/ b.t = "NaN" THEN NaN
    ELSE IF a.t = "Infinity" /\ b.t = "Infinity"
         THEN (IF a.v = b.v THEN a ELSE NaN)
    ELSE IF a.t = "Infinity" THEN a
    ELSE IF b.t = "Infinity" THEN b
    ELSE Plus(a.v, b.v)
Sub(a, b) == Add(a, Neg(b))

StartsWith(s, w) == Len(s) >= Len(w) /\ SubSeq(s, 1, Len(w)) = w

\* the value of the digits x of an exponent, which have no zero at their
\* front.  Up to nine digits it is their value; an exponent of ten digits
\* or more is taken as 10^9, which gives the same Infinity or 0 for every
\* text of fewer than 10^9 - 400 characters
RECURSIVE ExponentValue(_)
ExponentValue(x) ==
    IF Len(x) > 9 THEN 1000000000
    ELSE IF x = <<>> THEN 0
    ELSE 10 * ExponentValue(SubSeq(x, 1, Len(x) - 1)) + x[Len(x)]

\* the digits at the front of the text r, as a natural number
Leading(r) == StripZeros(Ints(DigitPrefix(r)))

\* the text r starts with a minus sign; r without its sign, if it has one
Minus(r) == r # <<>> /\ Head(r) = "-"
Unsign(r) == IF r # <<>> /\ Head(r) \in {"+", "-"} THEN Tail(r) ELSE r

\* the exponent written in r, the text after e or E: optional sign, digits
Exponent(r) == (IF Minus(r) THEN 0 - 1 ELSE 1) * ExponentValue(Leading(Unsign(r)))

\* the literal with integer digits ip and fraction digits fp, followed by r
AfterFraction(ip, fp, r) ==
    IF ip = <<>> /\ fp = <<>> THEN NaN
    ELSE Scaled(ip \o fp,
                Len(ip) + (IF r # <<>> /\ Head(r) \in {"e", "E"}
                           THEN Exponent(Tail(r)) ELSE 0))

\* the fraction digits at the front of r, which are after a point, and r
\* without its fraction
FractionOf(r) == IF r # <<>> /\ Head(r) = "." THEN DigitPrefix(Tail(r)) ELSE <<>>
PastFraction(r) ==
    IF r # <<>> /\ Head(r) = "." THEN SubSeq(r, Len(FractionOf(r)) + 2, Len(r)) ELSE r

\* the literal with integer digits ip, followed by r
AfterInteger(ip, r) == AfterFraction(ip, FractionOf(r), PastFraction(r))

\* the literal s starts with the digits ip
FromInteger(s, ip) == AfterInteger(ip, SubSeq(s, Len(ip) + 1, Len(s)))

\* a literal without its sign
Unsigned(s) ==
    IF StartsWith(s, <<"I", "n", "f", "i", "n", "i", "t", "y">>) THEN Infinity(1)
    ELSE FromInteger(s, DigitPrefix(s))

\* x, or -x when neg
WithSign(neg, x) == IF neg THEN Neg(x) ELSE x

\* a literal with its optional sign
Signed(s) == WithSign(Minus(s), Unsigned(Unsign(s)))

\* parseFloat: leading white space skipped, then the longest prefix that
\* is a decimal literal: optional sign, then Infinity, or digits with an
\* optional fraction and an optional exponent (e or E, optional sign,
\* digits); NaN when there is no such prefix
ParseFloat(str) == Signed(TrimStart(str))

\* Array.prototype.slice(0, n)
Slice0(s, n) == SubSeq(s, 1, IF Len(s) < n THEN Len(s) ELSE n)

\* ------------------------------------------------------ service payloads
\* response.data.data of the air-quality service: absent, a list, or a
\* string (the service's error text)
PayloadUndefined == [k |-> "undefined", items |-> <<>>, text |-> ""]
PayloadArray(d) == [k |-> "array", items |-> d, text |-> ""]
PayloadText(text) == [k |-> "string", items |-> <<>>, text |-> text]
PayloadString == PayloadText("Invalid key")
PayloadStringOther == PayloadText("Over quota")

\* JS truthiness of a payload: an array, even empty, is truthy, and so is a
\* string that is not empty
Truthy(p) == p.k = "array" \/ (p.k = "string" /\ p.text # "")

\* Array.isArray
IsArray(p) == p.k = "array"

\* a station reading as the service sends it; nil is a null list entry;
\* station is 1 when station.name is present
Reading(la, lo, a, st) == [nil |-> FALSE, lat |-> la, lon |-> lo, aqi |-> a, station |-> st]
NullReading == [nil |-> TRUE, lat |-> Undefined, lon |-> Undefined, aqi |-> Undefined, station |-> 0]

RdA == Reading(Num(4000), Num(-7400), Num(50), 1)
RdB == Reading(Num(3400), Num(-11800), Num(150), 0)
RdBadLat == Reading(Str(1), Num(-7400), Num(50), 1)
RdBadLon == Reading(Num(4000), Undefined, Num(50), 1)
RdBadAqi == Reading(Num(4000), Num(-7400), Str(2), 1)

ReadingPool == {RdA, RdB, RdBadLat, RdBadLon, RdBadAqi, NullReading}

\* ---------------------------------------------------------------- layers
\* what map.eachLayer visits: the base tile layer, L.CircleMarker objects
\* and L.Marker objects
MkLayer(c, la, lo, a, n) == [cls |-> c, lat |-> la, lon |-> lo, aqi |-> a, name |-> n]
TileLayer == MkLayer("TileLayer", Undefined, Undefined, Undefined, "osm")

\* L.circleMarker([point.lat, point.lon], ...).bindPopup(`AQI: ${point.aqi} ... station name`)
CircleMarkerOf(point) ==
    MkLayer("CircleMarker", point.lat, point.lon, point.aqi,
            IF point.station = 1 THEN "station" ELSE "Unknown Station")

\* L.marker([lat, lon]).bindPopup(display_name)
MarkerOf(lat, lon, display_name) == MkLayer("Marker", lat, lon, Undefined, display_name)
\* the popup .openPopup() puts on the map, a layer of its own that goes
\* when its marker is removed
PopupOf(lat, lon, display_name) == MkLayer("Popup", lat, lon, Undefined, display_name)

\* the layers of s that satisfy / do not satisfy `layer instanceof cls`
RECURSIVE WithoutClass(_, _)
WithoutClass(s, cls) ==
    IF s = <<>> THEN <<>>
    ELSE IF Head(s).cls = cls THEN WithoutClass(Tail(s), cls)
         ELSE <<Head(s)>> \o WithoutClass(Tail(s), cls)

RECURSIVE OfClass(_, _)
OfClass(s, cls) ==
    IF s = <<>> THEN <<>>
    ELSE IF Head(s).cls = cls THEN <<Head(s)>> \o OfClass(Tail(s), cls)
         ELSE OfClass(Tail(s), cls)

\* the test of line 173 without its third typeof
PointOkNoAqi(point) ==
    ~point.nil /\ TypeOf(point.lat) = "number" /\ TypeOf(point.lon) = "number"

\* the test of line 173
PointOk(point) ==
    ~point.nil /\ TypeOf(point.lat) = "number" /\ TypeOf(point.lon) = "number"
    /\ TypeOf(point.aqi) = "number"

\* aqiData.forEach(...) of lines 172-185: the markers added, in order
RECURSIVE AddPoints(_)
AddPoints(d) ==
    IF d = <<>> THEN <<>>
    ELSE (IF PointOk(Head(d)) THEN <<CircleMarkerOf(Head(d))>> ELSE <<>>)
         \o AddPoints(Tail(d))

\* the reconciliation effect without its clearing loop
ReconcileNoClear(ls, data) ==
    IF ~IsArray(data) \/ Len(data.items) = 0 THEN ls
    ELSE ls \o AddPoints(data.items)

\* the reconciliation effect of lines 161-186 on the layers of a live map
ReconcileLayers(ls, data) ==
    IF ~IsArray(data) \/ Len(data.items) = 0 THEN ls
    ELSE WithoutClass(ls, "CircleMarker") \o AddPoints(data.items)

\* ------------------------------------------------------- input domains
\* what the user can type into the credential field
TokenPool == {<<>>, <<" ">>, <<" ", "k">>}
\* what localStorage holds at mount: nothing, or a credential saved earlier
StoredPool == {<<>>, <<" ", "k">>}
\* what the user can type into the search field
QueryPool == {<<>>, <<" ">>, <<"p">>}

Place(n, la, lo) == [display_name |-> n, lat |-> la, lon |-> lo]
Paris == Place("Paris", <<"4", "8", ".", "8", "5">>, <<"2", ".", "3", "5">>)
Lima == Place("Lima", <<"-", "1", "2", ".", "0", "4">>, <<"-", "7", "7", ".", "0", "3">>)
\* a candidate whose latitude is not a number
Nowhere == Place("Nowhere", <<"n", "/", "a">>, <<"2", ".", "3", "5">>)
PlacePool == {Paris, Lima, Nowhere}
\* response.data of the geocoding service
GeoPool == {<<>>, <<Paris, Lima, Nowhere>>, <<Paris, Paris, Paris, Paris, Paris, Lima>>}

\* the lists of readings the air-quality service answers with
DataPool == {<<>>, <<RdBadAqi, RdA>>}
PayloadPool ==
    {PayloadUndefined, PayloadString, PayloadStringOther} \cup {PayloadArray(d) : d \in DataPool}

\* the outcome of axios.get: it throws, or it returns a response, of which
\* the code reads response.data.data (PayloadUndefined also stands for a
\* response whose response.data is absent: the && of line 86 is falsy in
\* both cases)
RespError == [st |-> "error", payload |-> PayloadUndefined]
RespBody(p) == [st |-> "body", payload |-> p]
ResponsePool == {RespError} \cup {RespBody(p) : p \in PayloadPool}

\* the outcome of the construction in the try block: both calls succeed,
\* L.map throws, or L.control.zoom(...).addTo throws
BuildPool == {"ok", "throwMap", "throwZoom"}

\* ------------------------------------------------------- program constants
\* offset = 0.18 (line 81)
offset == Decimal(18, 2)
\* the zoom of setView (line 58) and of the initial view (line 106)
SelectZoom == 12
DefaultZoom == 4
\* center: [39.8283, -98.5795] (line 105)
DefaultCenter == <<Decimal(398283, 4), Decimal(0 - 985795, 4)>>
\* latlng=24.396308,-125.000000,49.384358,-66.934570 (line 123)
DefaultBounds ==
    <<Decimal(24396308, 6), Decimal(0 - 125000000, 6), Decimal(49384358, 6),
      Decimal(0 - 66934570, 6)>>

\* parseFloat of the coordinate texts of the candidates, lat - offset and
\* lat + offset of their numbers: worked out once, and looked up by
\* ParseCoordinate, Below and Above, which are parseFloat(s), x - offset and
\* x + offset for every s and x
PoolTexts == {p.lat : p \in PlacePool} \cup {p.lon : p \in PlacePool}
ParsedTexts == [s \in PoolTexts |-> ParseFloat(s)]
PoolNumbers == {ParsedTexts[s] : s \in PoolTexts}
Margins == [x \in PoolNumbers |-> [less |-> Sub(x, offset), more |-> Add(x, offset)]]
ParseCoordinate(s) == IF s \in PoolTexts THEN ParsedTexts[s] ELSE ParseFloat(s)
Below(x) == IF x \in PoolNumbers THEN Margins[x].less ELSE Sub(x, offset)
Above(x) == IF x \in PoolNumbers THEN Margins[x].more ELSE Add(x, offset)

ToastToken == "Please enter a valid IQAir API token"
ToastSearch == "Error searching for locations"
ToastNoDataLocation == "No air quality data available for this location"
ToastFailLocation == "Failed to load air quality data"
ToastInit == "Failed to initialize map"
ToastNoData == "No air quality data available. Please check your API key."
ToastFail == "Failed to load air quality data. Please check your API key."

\* ------------------------------------------------------------------ state
VARIABLES
    mounted,          \* the component is mounted
    iqairToken,       \* useState cells (lines 18-23): the value last set
    showMap,
    mapInitialized,
    aqiData,
    searchResults,
    selectedLocation,
    localStorage,     \* the value under the key 'iqair_token'
    mapContainer,     \* mapContainer.current is the div (TRUE) or null
    map,              \* map.current: 0 for null, else an index into maps
    maps,             \* every L.Map constructed so far
    rendered,         \* the state values the closures of the last render see
    dirty,            \* a render is scheduled: "no", "sync" (by a click or an
                      \* input event, rendered before anything else runs) or
                      \* "later" (by an effect or after an await)
    aqiChanged,       \* aqiData was set to a new array since the last render
    hasCleanup,       \* the last run of the first effect returned its cleanup
    pending,          \* what is left to run of the commit in progress
    inflight,         \* air-quality requests awaiting their response
    issued,           \* how many air-quality requests were issued
    geocoding,        \* geocoding requests awaiting their response
    searches,         \* how many geocoding requests were issued
    timers,           \* setTimeout callbacks not yet fired
    toasts,           \* the notifications of the last action
    last,             \* what the last action was
    lastResolved,     \* the request that completed last, with its response
    selects,          \* how many calls of handleSelectLocation reached line 75
    runs,             \* reconciliation alone: how often it ran
    once              \* reconciliation alone: the layers after the first run

vars == <<mounted, iqairToken, showMap, mapInitialized, aqiData, searchResults,
          selectedLocation, localStorage, mapContainer, map, maps, rendered,
          dirty, aqiChanged, hasCleanup, pending, inflight, issued, geocoding,
          searches, timers, toasts, last, lastResolved, selects, runs, once>>

reactState == <<iqairToken, showMap, mapInitialized, aqiData, searchResults, selectedLocation>>
net == <<inflight, issued, geocoding, searches>>
ghost == <<lastResolved, selects, runs, once>>

Did(op) == op

\* the dependency array of the first effect (line 159), as a render sees it
Deps == [showMap |-> showMap, iqairToken |-> iqairToken, mapInitialized |-> mapInitialized]

\* what a render hands to its closures, to the dependency arrays of lines
\* 159 and 186 and to the search bar (line 214)
Closure ==
    [showMap |-> showMap, iqairToken |-> iqairToken, mapInitialized |-> mapInitialized,
     aqiData |-> aqiData, searchResults |-> searchResults]

\* the dependency array of the first effect, as the render r saw it
DepsOf(r) ==
    [showMap |-> r.showMap, iqairToken |-> r.iqairToken, mapInitialized |-> r.mapInitialized]

Idle == pending = <<>>

\* `const [aqiData, setAqiData] = useState<any[]>([])` and the other cells;
\* the first render shows the credential form, and both effects return at
\* their guards
Init ==
    /\ mounted = TRUE
    /\ localStorage \in StoredPool
    /\ iqairToken = localStorage
    /\ showMap = FALSE
    /\ mapInitialized = FALSE
    /\ aqiData = PayloadArray(<<>>)
    /\ searchResults = <<>>
    /\ selectedLocation = <<>>
    /\ mapContainer = FALSE
    /\ map = 0
    /\ maps = <<>>
    /\ rendered = Closure
    /\ dirty = "no"
    /\ aqiChanged = FALSE
    /\ hasCleanup = FALSE
    /\ pending = <<>>
    /\ inflight = <<>>
    /\ issued = 0
    /\ geocoding = <<>>
    /\ searches = 0
    /\ timers = 0
    /\ toasts = <<>>
    /\ last = Did("mount")
    /\ lastResolved = [id |-> 0, kind |-> "none", resp |-> RespError]
    /\ selects = 0
    /\ runs = 0
    /\ once = <<>>

\* a state setter called with a new value schedules a render
Schedule(how) ==
    IF ~mounted THEN "no"
    ELSE IF dirty = "sync" \/ how = "sync" THEN "sync" ELSE "later"

\* an event handler, a timer or a promise continuation can run
CanRun == Idle /\ dirty # "sync"

\* ------------------------------------------------------------ the form
\* onChange={(e) => setIqairToken(e.target.value)} (line 199); the field
\* is rendered while showMap is false
SetIqairToken(v) ==
    /\ mounted /\ CanRun /\ ~rendered.showMap
    /\ v # iqairToken
    /\ iqairToken' = v
    /\ dirty' = Schedule("sync")
    /\ toasts' = <<>>
    /\ last' = Did("setIqairToken")
    /\ UNCHANGED <<mounted, showMap, mapInitialized, aqiData, searchResults,
                   selectedLocation, localStorage, mapContainer, map, maps,
                   rendered, aqiChanged, hasCleanup, pending, net, timers, ghost>>

\* handleSaveToken with the blank test left out
HandleSaveTokenNoCheck ==
    /\ mounted /\ CanRun /\ ~rendered.showMap
    /\ last' = Did("handleSaveToken")
    /\ toasts' = <<>>
    /\ localStorage' = rendered.iqairToken
    /\ showMap' = TRUE
    /\ dirty' = Schedule("sync")
    /\ UNCHANGED <<mounted, iqairToken, mapInitialized, aqiData, searchResults,
                   selectedLocation, mapContainer, map, maps, rendered,
                   aqiChanged, hasCleanup, pending, net, timers, ghost>>

\* handleSaveToken (lines 25-33), the click handler of the form's button
HandleSaveToken ==
    /\ mounted /\ CanRun /\ ~rendered.showMap
    /\ last' = Did("handleSaveToken")
    /\ IF Trim(rendered.iqairToken) = <<>>
       THEN /\ toasts' = <<ToastToken>>
            /\ UNCHANGED <<localStorage, showMap, dirty>>
       ELSE /\ toasts' = <<>>
            /\ localStorage' = rendered.iqairToken
            /\ showMap' = TRUE
            /\ dirty' = Schedule("sync")
    /\ UNCHANGED <<mounted, iqairToken, mapInitialized, aqiData, searchResults,
                   selectedLocation, mapContainer, map, maps, rendered,
                   aqiChanged, hasCleanup, pending, net, timers, ghost>>

\* ---------------------------------------------------------------- search
\* handleSearch up to its await (lines 35-44); the search bar is rendered
\* while showMap is true
HandleSearch(query) ==
    /\ mounted /\ CanRun /\ rendered.showMap
    /\ toasts' = <<>>
    /\ last' = Did("handleSearch")
    /\ IF query = <<>>
       THEN /\ searchResults' = <<>>
            /\ dirty' = Schedule("sync")
            /\ UNCHANGED <<geocoding, searches>>
       ELSE /\ geocoding' = Append(geocoding, query)
            /\ searches' = searches + 1
            /\ UNCHANGED <<searchResults, dirty>>
    /\ UNCHANGED <<mounted, iqairToken, showMap, mapInitialized, aqiData,
                   selectedLocation, localStorage, mapContainer, map, maps,
                   rendered, aqiChanged, hasCleanup, pending, inflight, issued,
                   timers, ghost>>

RemoveAt(s, i) == SubSeq(s, 1, i - 1) \o SubSeq(s, i + 1, Len(s))

\* handleSearch after its await (lines 45-49): ok is FALSE when axios.get threw
HandleSearchResolved(i, ok, data) ==
    /\ Idle /\ dirty # "sync"
    /\ i \in 1..Len(geocoding)
    /\ geocoding' = RemoveAt(geocoding, i)
    /\ last' = Did("handleSearchResolved")
    /\ IF ok
       THEN /\ searchResults' = Slice0(data, 5)
            /\ dirty' = Schedule("later")
            /\ toasts' = <<>>
       ELSE /\ toasts' = <<ToastSearch>>
            /\ UNCHANGED <<searchResults, dirty>>
    /\ UNCHANGED <<mounted, iqairToken, showMap, mapInitialized, aqiData,
                   selectedLocation, localStorage, mapContainer, map, maps,
                   rendered, aqiChanged, hasCleanup, pending, inflight, issued,
                   searches, timers, ghost>>

\* the request of fetchAQIDataForLocation (lines 81-84)
LocationFetch(lat, lon) ==
    [id |-> issued + 1, kind |-> "location",
     bounds |-> <<Below(lat), Below(lon), Above(lat), Above(lon)>>,
     token |-> rendered.iqairToken]

\* map.current.setView, the eachLayer loop and L.marker(...).addTo of
\* lines 58-69 on the map m
SelectOnMapClearsCircles(m, lat, lon, name) ==
    [m EXCEPT !.center = <<lat, lon>>, !.zoom = SelectZoom,
              !.layers = WithoutClass(WithoutClass(WithoutClass(m.layers, "Marker"),
                                                       "Popup"), "CircleMarker")
                             \o <<MarkerOf(lat, lon, name), PopupOf(lat, lon, name)>>,
              !.late = @ \/ m.removed]

SelectOnMapNoClear(m, lat, lon, name) ==
    [m EXCEPT !.center = <<lat, lon>>, !.zoom = SelectZoom,
              !.layers = m.layers \o <<MarkerOf(lat, lon, name), PopupOf(lat, lon, name)>>,
              !.late = @ \/ m.removed]

SelectOnMap(m, lat, lon, name) ==
    [m EXCEPT !.center = <<lat, lon>>, !.zoom = SelectZoom,
              !.layers = WithoutClass(WithoutClass(m.layers, "Marker"), "Popup")
                             \o <<MarkerOf(lat, lon, name), PopupOf(lat, lon, name)>>,
              !.late = @ \/ m.removed]

\* handleSelectLocation (lines 52-76) with the call of
\* fetchAQIDataForLocation up to its await (lines 78-84).  Leaflet throws
\* on a coordinate that is not a number (Invalid LatLng object), which ends
\* the handler at line 58, after the setSelectedLocation of line 55: the
\* marker, the clearing of the candidates and the request are not reached.
HandleSelectLocation(location) ==
    LET lat == ParseCoordinate(location.lat)
        lon == ParseCoordinate(location.lon)
        throws == map # 0 /\ (lat = NaN \/ lon = NaN)
    IN  /\ mounted /\ CanRun /\ rendered.showMap
        /\ \E j \in 1..Len(rendered.searchResults) : rendered.searchResults[j] = location
        /\ toasts' = <<>>
        /\ last' = IF throws THEN Did("handleSelectLocation throws")
                   ELSE Did("handleSelectLocation")
        /\ selectedLocation' = <<lat, lon>>
        /\ dirty' = Schedule("sync")
        /\ maps' = IF map # 0 /\ ~throws
                   THEN [maps EXCEPT ![map] = SelectOnMap(@, lat, lon, location.display_name)]
                   ELSE maps
        /\ IF throws
           THEN UNCHANGED <<searchResults, inflight, issued, selects>>
           ELSE /\ searchResults' = <<>>
                /\ inflight' = Append(inflight, LocationFetch(lat, lon))
                /\ issued' = issued + 1
                /\ selects' = selects + 1
        /\ UNCHANGED <<mounted, iqairToken, showMap, mapInitialized, aqiData,
                       localStorage, mapContainer, map, rendered, aqiChanged,
                       hasCleanup, pending, geocoding, searches, timers,
                       lastResolved, runs, once>>

\* ------------------------------------------------------------ readings
\* lines 86-96 and 126-136: what is passed to setAqiData and what is
\* notified, for the messages noData and fail of the function; this one
\* notifies nothing when the request failed
SettleQuietly(resp, noData, fail) ==
    IF resp.st = "error" THEN [data |-> PayloadArray(<<>>), toasts |-> <<>>]
    ELSE IF resp.st = "body" /\ Truthy(resp.payload)
         THEN [data |-> resp.payload, toasts |-> <<>>]
         ELSE [data |-> PayloadArray(<<>>), toasts |-> <<noData>>]

Settle(resp, noData, fail) ==
    IF resp.st = "error" THEN [data |-> PayloadArray(<<>>), toasts |-> <<fail>>]
    ELSE IF resp.st = "body" /\ Truthy(resp.payload)
         THEN [data |-> resp.payload, toasts |-> <<>>]
         ELSE [data |-> PayloadArray(<<>>), toasts |-> <<noData>>]

\* the continuation that drops the result of a request that is not the
\* one issued last
FetchResolvedIfLatest(i, resp, noData, fail) ==
    LET r == Settle(resp, noData, fail)
        fresh == inflight[i].id = issued
    IN  /\ CanRun
        /\ inflight' = RemoveAt(inflight, i)
        /\ aqiData' = IF fresh THEN r.data ELSE aqiData
        /\ aqiChanged' = IF fresh
                         THEN ~(r.data.k = "string" /\ rendered.aqiData = r.data)
                         ELSE aqiChanged
        /\ dirty' = IF fresh THEN Schedule("later") ELSE dirty
        /\ toasts' = r.toasts
        /\ last' = Did("fetchResolved")
        /\ lastResolved' = [id |-> inflight[i].id, kind |-> inflight[i].kind, resp |-> resp]
        /\ UNCHANGED <<mounted, iqairToken, showMap, mapInitialized, searchResults,
                       selectedLocation, localStorage, mapContainer, map, maps,
                       rendered, hasCleanup, pending, issued, geocoding, searches,
                       timers, selects, runs, once>>

\* an air-quality request completes and the async function resumes after
\* its await; setAqiData gets a new array (or the payload) every time, and
\* the second effect is due when the value differs (Object.is) from the
\* aqiData of the last render: a new array always does, a string does
\* unless the last render had the same string
FetchResolved(i, resp, noData, fail) ==
    LET r == Settle(resp, noData, fail)
    IN  /\ CanRun
        /\ inflight' = RemoveAt(inflight, i)
        /\ aqiData' = r.data
        /\ aqiChanged' = ~(r.data.k = "string" /\ rendered.aqiData = r.data)
        /\ dirty' = IF r.data.k = "string" /\ aqiData = r.data THEN dirty
                    ELSE Schedule("later")
        /\ toasts' = r.toasts
        /\ last' = Did("fetchResolved")
        /\ lastResolved' = [id |-> inflight[i].id, kind |-> inflight[i].kind, resp |-> resp]
        /\ UNCHANGED <<mounted, iqairToken, showMap, mapInitialized, searchResults,
                       selectedLocation, localStorage, mapContainer, map, maps,
                       rendered, hasCleanup, pending, issued, geocoding, searches,
                       timers, selects, runs, once>>

\* fetchAQIDataForLocation after its await (lines 86-96)
FetchAQIDataForLocationResolved(i, resp) ==
    /\ i \in 1..Len(inflight)
    /\ inflight[i].kind = "location"
    /\ FetchResolved(i, resp, ToastNoDataLocation, ToastFailLocation)

\* fetchAQIData after its await (lines 126-136)
FetchAQIDataResolved(i, resp) ==
    /\ i \in 1..Len(inflight)
    /\ inflight[i].kind = "initial"
    /\ FetchResolved(i, resp, ToastNoData, ToastFail)

\* ------------------------------------------------------------------ React
\* a scheduled render: the closures get the current state, the div gets
\* its ref when the map view is rendered, and the commit runs the cleanup
\* of the first effect and the first effect when one of [showMap,
\* iqairToken, mapInitialized] differs from the previous render, and the
\* second effect when aqiData does
Render ==
    /\ mounted /\ Idle /\ dirty # "no"
    /\ rendered' = Closure
    /\ mapContainer' = showMap
    /\ pending' = (IF Deps # DepsOf(rendered) /\ hasCleanup THEN <<"cleanup1">> ELSE <<>>)
                  \o (IF Deps # DepsOf(rendered) THEN <<"effect1">> ELSE <<>>)
                  \o (IF aqiChanged THEN <<"effect2">> ELSE <<>>)
    /\ dirty' = "no"
    /\ aqiChanged' = FALSE
    /\ toasts' = <<>>
    /\ last' = Did("render")
    /\ UNCHANGED <<mounted, reactState, localStorage, map, maps, hasCleanup,
                   net, timers, ghost>>

\* the object L.map(...) returns (lines 104-112); zc tells whether the zoom
\* control was attached (line 115); late records that a method of the map
\* was called after map.remove()
NewMap(zc) ==
    [removed |-> FALSE, layers |-> <<TileLayer>>, center |-> DefaultCenter,
     zoom |-> DefaultZoom, zoomControl |-> zc, late |-> FALSE]

\* map.remove()
Removed(m) == [m EXCEPT !.removed = TRUE, !.layers = <<>>]

\* the cleanup that clears the handle and leaves the map object alone
InitCleanupNoRemove ==
    /\ pending # <<>> /\ Head(pending) = "cleanup1"
    /\ pending' = Tail(pending)
    /\ toasts' = <<>>
    /\ last' = Did("initCleanup")
    /\ IF map # 0
       THEN /\ map' = 0
            /\ mapInitialized' = FALSE
            /\ dirty' = IF mapInitialized THEN Schedule("later") ELSE dirty
            /\ UNCHANGED maps
       ELSE UNCHANGED <<maps, map, mapInitialized, dirty>>
    /\ UNCHANGED <<mounted, iqairToken, showMap, aqiData, searchResults,
                   selectedLocation, localStorage, mapContainer, rendered,
                   aqiChanged, hasCleanup, net, timers, ghost>>

\* the cleanup that removes the map and keeps the handle
InitCleanupKeepsHandle ==
    /\ pending # <<>> /\ Head(pending) = "cleanup1"
    /\ pending' = Tail(pending)
    /\ toasts' = <<>>
    /\ last' = Did("initCleanup")
    /\ IF map # 0
       THEN /\ maps' = [maps EXCEPT ![map] = Removed(@)]
            /\ mapInitialized' = FALSE
            /\ dirty' = IF mapInitialized THEN Schedule("later") ELSE dirty
            /\ UNCHANGED map
       ELSE UNCHANGED <<maps, map, mapInitialized, dirty>>
    /\ UNCHANGED <<mounted, iqairToken, showMap, aqiData, searchResults,
                   selectedLocation, localStorage, mapContainer, rendered,
                   aqiChanged, hasCleanup, net, timers, ghost>>

\* the function the first effect returns (lines 152-158), run before the
\* effect runs again and when the component unmounts
InitCleanup ==
    /\ pending # <<>> /\ Head(pending) = "cleanup1"
    /\ pending' = Tail(pending)
    /\ toasts' = <<>>
    /\ last' = Did("initCleanup")
    /\ IF map # 0
       THEN /\ maps' = [maps EXCEPT ![map] = Removed(@)]
            /\ map' = 0
            /\ mapInitialized' = FALSE
            /\ dirty' = IF mapInitialized THEN Schedule("later") ELSE dirty
       ELSE UNCHANGED <<maps, map, mapInitialized, dirty>>
    /\ UNCHANGED <<mounted, iqairToken, showMap, aqiData, searchResults,
                   selectedLocation, localStorage, mapContainer, rendered,
                   aqiChanged, hasCleanup, net, timers, ghost>>

\* the request of fetchAQIData (lines 122-124)
InitialFetch ==
    [id |-> issued + 1, kind |-> "initial", bounds |-> DefaultBounds,
     token |-> rendered.iqairToken]

\* the first effect (lines 99-151); build is the outcome of the try block
InitEffect(build) ==
    /\ pending # <<>> /\ Head(pending) = "effect1"
    /\ pending' = Tail(pending)
    /\ IF ~mapContainer \/ ~rendered.showMap \/ rendered.mapInitialized
       THEN /\ build = "ok"
            /\ hasCleanup' = FALSE
            /\ toasts' = <<>>
            /\ last' = Did("initEffect")
            /\ UNCHANGED <<map, maps, mapInitialized, dirty, inflight, issued, timers>>
       ELSE /\ hasCleanup' = TRUE
            /\ last' = Did("initEffect")
            /\ CASE build = "throwMap" ->
                      /\ toasts' = <<ToastInit>>
                      /\ UNCHANGED <<map, maps, mapInitialized, dirty, inflight, issued, timers>>
                 [] build = "throwZoom" ->
                      /\ maps' = Append(maps, NewMap(FALSE))
                      /\ map' = Len(maps) + 1
                      /\ toasts' = <<ToastInit>>
                      /\ UNCHANGED <<mapInitialized, dirty, inflight, issued, timers>>
                 [] build = "ok" ->
                      /\ maps' = Append(maps, NewMap(TRUE))
                      /\ map' = Len(maps) + 1
                      /\ mapInitialized' = TRUE
                      /\ dirty' = IF mapInitialized THEN dirty ELSE Schedule("later")
                      /\ inflight' = Append(inflight, InitialFetch)
                      /\ issued' = issued + 1
                      /\ timers' = timers + 1
                      /\ toasts' = <<>>
    /\ UNCHANGED <<mounted, iqairToken, showMap, aqiData, searchResults,
                   selectedLocation, localStorage, mapContainer, rendered,
                   aqiChanged, geocoding, searches, ghost>>

\* lines 162-185 on the map m that map.current refers to
ReconcileOnMap(m, data) ==
    [m EXCEPT !.layers = ReconcileLayers(@, data),
              !.late = @ \/ (m.removed /\ IsArray(data) /\ Len(data.items) > 0)]

\* the second effect (lines 161-186)
ReconcileEffect ==
    /\ pending # <<>> /\ Head(pending) = "effect2"
    /\ pending' = Tail(pending)
    /\ toasts' = <<>>
    /\ last' = Did("reconcileEffect")
    /\ maps' = IF map = 0 THEN maps
               ELSE [maps EXCEPT ![map] = ReconcileOnMap(@, aqiData)]
    /\ UNCHANGED <<mounted, reactState, localStorage, mapContainer, map, rendered,
                   dirty, aqiChanged, hasCleanup, net, timers, ghost>>

\* map.invalidateSize(): the map measures its container again
InvalidateSize(m) == [m EXCEPT !.late = @ \/ m.removed]

\* the callback of setTimeout (lines 142-146)
ResizeTimeout ==
    /\ CanRun /\ timers > 0
    /\ timers' = timers - 1
    /\ maps' = IF map = 0 THEN maps ELSE [maps EXCEPT ![map] = InvalidateSize(@)]
    /\ toasts' = <<>>
    /\ last' = Did("resizeTimeout")
    /\ UNCHANGED <<mounted, reactState, localStorage, mapContainer, map, rendered,
                   dirty, aqiChanged, hasCleanup, pending, net, ghost>>

\* the hosting view removes the component: React runs the cleanup the
\* first effect returned last, if it returned one
Unmount ==
    /\ mounted /\ CanRun
    /\ mounted' = FALSE
    /\ mapContainer' = FALSE
    /\ pending' = IF hasCleanup THEN <<"cleanup1">> ELSE <<>>
    /\ hasCleanup' = FALSE
    /\ dirty' = "no"
    /\ toasts' = <<>>
    /\ last' = Did("unmount")
    /\ UNCHANGED <<reactState, localStorage, map, maps, rendered, aqiChanged,
                   net, timers, ghost>>

\* what a run has constructed and requested so far
Load == Len(maps) + issued + searches

\* the runs of the whole component, as far as the bounds go
Next ==
    \/ \E v \in TokenPool : SetIqairToken(v)
    \/ HandleSaveToken
    \/ \E q \in QueryPool :
          /\ q = <<>> \/ searches < MaxSearches
          /\ HandleSearch(q)
          /\ Load' <= MaxLoad
    \/ \E i \in 1..MaxSearches, data \in GeoPool : HandleSearchResolved(i, TRUE, data)
    \/ \E i \in 1..MaxSearches : HandleSearchResolved(i, FALSE, <<>>)
    \/ \E location \in PlacePool :
          /\ HandleSelectLocation(location)
          /\ issued' <= MaxFetches /\ Load' <= MaxLoad
    \/ \E i \in 1..MaxFetches, resp \in ResponsePool : FetchAQIDataForLocationResolved(i, resp)
    \/ \E i \in 1..MaxFetches, resp \in ResponsePool : FetchAQIDataResolved(i, resp)
    \/ Render
    \/ InitCleanup
    \/ \E build \in BuildPool :
          /\ InitEffect(build)
          /\ Len(maps') <= MaxMaps /\ issued' <= MaxFetches /\ Load' <= MaxLoad
    \/ ReconcileEffect
    \/ ResizeTimeout
    \/ Unmount

Spec == Init /\ [][Next]_vars

\* ------------------------------------------------- search and selection
\* the runs of the whole component with room for one more search, every
\* query and every answer of the geocoding service
NextSearch ==
    \/ \E v \in TokenPool : SetIqairToken(v)
    \/ HandleSaveToken
    \/ \E q \in QueryPool :
          /\ q = <<>> \/ searches < MaxSearchesAlone
          /\ HandleSearch(q)
          /\ Load' <= MaxLoad
    \/ \E i \in 1..MaxSearchesAlone, data \in GeoPool : HandleSearchResolved(i, TRUE, data)
    \/ \E i \in 1..MaxSearchesAlone : HandleSearchResolved(i, FALSE, <<>>)
    \/ \E location \in PlacePool :
          /\ HandleSelectLocation(location)
          /\ issued' <= MaxFetches /\ Load' <= MaxLoad
    \/ \E i \in 1..MaxFetches, resp \in ResponsePool : FetchAQIDataForLocationResolved(i, resp)
    \/ \E i \in 1..MaxFetches, resp \in ResponsePool : FetchAQIDataResolved(i, resp)
    \/ Render
    \/ InitCleanup
    \/ \E build \in BuildPool :
          /\ InitEffect(build)
          /\ Len(maps') <= MaxMaps /\ issued' <= MaxFetches /\ Load' <= MaxLoad
    \/ ReconcileEffect
    \/ ResizeTimeout
    \/ Unmount

SpecSearch == Init /\ [][NextSearch]_vars

\* ------------------------------------------------- reconciliation alone
\* the coordinate of Paris, as parseFloat gives it
ParisAt == <<ParseFloat(Paris.lat), ParseFloat(Paris.lon)>>

\* sequences over S of length at most n
RECURSIVE SeqsUpTo(_, _)
SeqsUpTo(S, n) ==
    IF n = 0 THEN {<<>>}
    ELSE LET shorter == SeqsUpTo(S, n - 1)
         IN  shorter \cup {Append(q, x) : q \in {r \in shorter : Len(r) = n - 1}, x \in S}

\* the layers a live map can carry before a reconciliation: the tile layer,
\* the reading markers of an earlier Dataset, and the selected-place marker
\* with its popup, added before, between or after them
PriorLayers ==
    UNION {{<<TileLayer>> \o SubSeq(c, 1, n) \o m \o SubSeq(c, n + 1, Len(c)) :
                n \in 0..Len(c),
                m \in {<<>>, <<MarkerOf(ParisAt[1], ParisAt[2], "Paris"),
                                PopupOf(ParisAt[1], ParisAt[2], "Paris")>>}} :
        c \in SeqsUpTo({CircleMarkerOf(RdA), CircleMarkerOf(RdB)}, MaxPrior)}

\* the values of aqiData the second effect can be handed
BatchPool == {PayloadArray(d) : d \in SeqsUpTo(ReadingPool, MaxBatch)} \cup {PayloadString}

\* How the component gets to a live map with the layers ls and the Dataset
\* data: a map that was constructed with its zoom control issues the
\* initial request and is destroyed by the next commit; the construction
\* after it fails at the zoom control, so that map stays.  Paris is
\* selected on it once if ls has the marker, which centres the map on
\* Paris.  Every request was answered:
\* the reading markers of ls come from one answer and data from the last.
PriorSelects(ls) == IF OfClass(ls, "Marker") = <<>> THEN 0 ELSE 1
PriorIssued(ls) == IF ls = <<TileLayer>> THEN 1 ELSE 2
PriorMap(ls) ==
    IF PriorSelects(ls) = 0 THEN [NewMap(FALSE) EXCEPT !.layers = ls]
    ELSE [NewMap(FALSE) EXCEPT !.layers = ls, !.center = ParisAt, !.zoom = SelectZoom]
PriorMaps(ls) ==
    [i \in 1..(PriorIssued(ls) - PriorSelects(ls)) |-> Removed(NewMap(TRUE))]
        \o <<PriorMap(ls)>>
PriorResolved(ls, data) ==
    [id |-> PriorIssued(ls),
     kind |-> IF PriorSelects(ls) = 0 THEN "initial" ELSE "location",
     resp |-> IF data = PayloadArray(<<>>) THEN RespError ELSE RespBody(data)]

\* a mounted component with a live map, any prior layers and any Dataset,
\* after the render of the Dataset, with the second effect to be run
InitReconcile ==
    \E ls \in PriorLayers :
        /\ mounted = TRUE
        /\ localStorage = <<" ", "k">>
        /\ iqairToken = localStorage
        /\ showMap = TRUE
        /\ mapInitialized = FALSE
        /\ aqiData \in BatchPool
        /\ searchResults = <<>>
        /\ selectedLocation = IF PriorSelects(ls) = 0 THEN <<>> ELSE ParisAt
        /\ mapContainer = TRUE
        /\ maps = PriorMaps(ls)
        /\ map = Len(maps)
        /\ rendered = Closure
        /\ dirty = "no"
        /\ aqiChanged = FALSE
        /\ hasCleanup = TRUE
        /\ pending = <<"effect2">>
        /\ inflight = <<>>
        /\ issued = PriorIssued(ls)
        /\ geocoding = <<>>
        /\ searches = PriorSelects(ls)
        /\ timers = 0
        /\ toasts = <<>>
        /\ last = Did("render")
        /\ lastResolved = PriorResolved(ls, aqiData)
        /\ selects = PriorSelects(ls)
        /\ runs = 0
        /\ once = <<>>

\* the second effect (lines 161-186), and its body run once more on the
\* same aqiData with nothing in between
ReconcileRun ==
    /\ map # 0
    /\ pending' = <<>>
    /\ maps' = [maps EXCEPT ![map] = ReconcileOnMap(@, aqiData)]
    /\ runs' = runs + 1
    /\ once' = IF runs = 0 THEN maps'[map].layers ELSE once
    /\ last' = Did("reconcileEffect")
    /\ toasts' = <<>>
    /\ UNCHANGED <<mounted, reactState, localStorage, mapContainer, map, rendered,
                   dirty, aqiChanged, hasCleanup, net, timers, lastResolved, selects>>

\* two runs at most
NextReconcile == ReconcileRun /\ runs' <= 2

SpecReconcile == InitReconcile /\ [][NextReconcile]_vars

\* ----------------------------------------------------------------- claims
Live(i) == i \in 1..Len(maps) /\ ~maps[i].removed
Circles(i) == OfClass(maps[i].layers, "CircleMarker")

\* C1: at most one map instance is live, the live one is the one the handle
\* refers to, and a map is constructed only while the handle is empty (a
\* replaced instance was removed and the handle cleared before).
C1_OneLiveMap ==
    /\ [](\A i \in 1..Len(maps) : Live(i) => map = i)
    /\ [][Len(maps') > Len(maps) => map = 0]_vars

\* a second instance was constructed after the first was destroyed
C1_Witness ==
    Len(maps) = 2 /\ maps[1].removed /\ Live(2) /\ map = 2

\* C2: while the gate is open and the component mounted, the map is
\* constructed at most once and no instance is ever destroyed.
C2_BuiltOnceNeverDestroyed ==
    (mounted /\ showMap) =>
        /\ Len(maps) <= 1
        /\ \A i \in 1..Len(maps) : ~maps[i].removed

\* the reading markers that stand for the Dataset d: one per reading whose
\* latitude, longitude and index are numbers, in order
WellFormed(r) == ~r.nil /\ r.lat.t = "number" /\ r.lon.t = "number" /\ r.aqi.t = "number"

RECURSIVE Clean(_)
Clean(d) ==
    IF d = <<>> THEN <<>>
    ELSE (IF WellFormed(Head(d)) THEN <<Head(d)>> ELSE <<>>) \o Clean(Tail(d))

ExpectedMarkers(d) == [i \in 1..Len(Clean(d)) |-> CircleMarkerOf(Clean(d)[i])]

\* C3: after the reconciliation that a Dataset replacement triggers on a
\* live map, the reading markers on the map are exactly one per valid
\* Reading of the current Dataset, also when the Dataset is the empty list.
C3_MarkersMatchDataset ==
    (last = "reconcileEffect" /\ map # 0 /\ Live(map) /\ IsArray(aqiData)) =>
        Circles(map) = ExpectedMarkers(aqiData.items)

NoPayload(resp) == resp.st = "body" /\ resp.payload.k = "undefined"

\* C4: when a readings fetch ends in a transport error or its response has
\* no payload, the Dataset is the empty list and exactly one notification
\* was issued: the error of that function for a failed request, its warning
\* for an absent payload.
C4_FailedFetchEmptiesAndNotifiesOnce ==
    (last = "fetchResolved" /\ (lastResolved.resp.st = "error" \/ NoPayload(lastResolved.resp))) =>
        /\ aqiData = PayloadArray(<<>>)
        /\ toasts = << CASE lastResolved.resp.st = "error" /\ lastResolved.kind = "initial" -> ToastFail
                         [] lastResolved.resp.st = "error" /\ lastResolved.kind = "location" -> ToastFailLocation
                         [] lastResolved.resp.st # "error" /\ lastResolved.kind = "initial" -> ToastNoData
                         [] lastResolved.resp.st # "error" /\ lastResolved.kind = "location" -> ToastNoDataLocation >>

\* a selection fetch failed after an earlier fetch had delivered readings
C4_Witness ==
    /\ last = "fetchResolved" /\ lastResolved.kind = "location"
    /\ lastResolved.resp.st = "error" /\ lastResolved.id = 2
    /\ toasts = <<ToastFailLocation>> /\ aqiData = PayloadArray(<<>>)

\* C5: a readings fetch whose payload is a list without readings leaves
\* the Dataset empty and issues the warning of that function, as an absent
\* payload does.
C5_EmptyListWarns ==
    (last = "fetchResolved" /\ lastResolved.resp = RespBody(PayloadArray(<<>>))) =>
        /\ aqiData = PayloadArray(<<>>)
        /\ toasts = <<IF lastResolved.kind = "initial" THEN ToastNoData ELSE ToastNoDataLocation>>

\* C6: no method of a map is called after its remove(), and a removed map
\* carries no layer: the result of a fetch that was in flight at the
\* teardown changes nothing on the destroyed instance.
C6_NoLateMutation ==
    /\ [](\A i \in 1..Len(maps) : ~maps[i].late /\ (maps[i].removed => maps[i].layers = <<>>))
    /\ [][\A i \in 1..Len(maps) : maps[i].removed => maps'[i] = maps[i]]_vars

\* the only map was torn down while its fetch was in flight, the fetch then
\* delivered readings and the reconciliation ran
C6_Witness ==
    /\ last = "reconcileEffect" /\ map = 0
    /\ Len(maps) = 1 /\ maps[1].removed
    /\ lastResolved.id = 1 /\ lastResolved.kind = "initial"
    /\ IsArray(aqiData) /\ Len(aqiData.items) > 0

\* what a completed fetch hands to setAqiData
ResultOf(resp) ==
    IF resp.st = "body" /\ resp.payload.k \in {"array", "string"}
    THEN resp.payload ELSE PayloadArray(<<>>)

\* C7: once every readings fetch has completed, the Dataset is the result
\* of the fetch that completed last, whichever was issued last.
C7_LastResolvedWins ==
    (inflight = <<>> /\ lastResolved.id # 0) => aqiData = ResultOf(lastResolved.resp)

\* two fetches were issued, the first completed last, and its readings are
\* the Dataset
C7_Witness ==
    /\ inflight = <<>> /\ issued = 2 /\ lastResolved.id = 1
    /\ aqiData = PayloadArray(<<RdBadAqi, RdA>>)

Blank(str) == \A i \in 1..Len(str) : str[i] = " "

\* C8: an unlock attempt with a blank credential leaves the gate closed,
\* issues the validation error alone and constructs no map; a live map
\* implies an open gate and a credential that is not blank, and no map is
\* constructed while the gate is closed.
C8_BlankCredentialNeverUnlocks ==
    /\ (last = "handleSaveToken" /\ Blank(rendered.iqairToken)) =>
           (~showMap /\ toasts = <<ToastToken>> /\ maps = <<>>)
    /\ ~showMap => maps = <<>>
    /\ \A i \in 1..Len(maps) : Live(i) => (showMap /\ ~Blank(iqairToken) /\ ~Blank(localStorage))

\* the button was clicked with a credential of one space
C8_Witness ==
    /\ last = "handleSaveToken" /\ rendered.iqairToken = <<" ">>
    /\ toasts = <<ToastToken>> /\ ~showMap

\* C9: a reading whose latitude, longitude or index is not a number gets no
\* marker, and the markers a reconciliation creates are those of the batch
\* with such readings deleted, in the same order.
C9_MalformedDropped ==
    (runs >= 1 /\ IsArray(aqiData) /\ aqiData.items # <<>>) =>
        /\ Circles(map) = ExpectedMarkers(aqiData.items)
        /\ Circles(map) = AddPoints(Clean(aqiData.items))

\* a batch of a malformed reading followed by a valid one was reconciled
C9_Witness ==
    /\ runs >= 1 /\ IsArray(aqiData) /\ Len(aqiData.items) = 2
    /\ ~WellFormed(aqiData.items[1]) /\ ~aqiData.items[1].nil
    /\ WellFormed(aqiData.items[2])
    /\ Len(Circles(map)) = 1

\* C10: running the reconciliation a second time on the same Dataset leaves
\* the layers of the map as the first run left them.
C10_ReconcileIdempotent ==
    runs = 2 => maps[map].layers = once

\* the map carried a reading marker of an earlier Dataset, and a batch with
\* a valid reading was reconciled twice
C10_Witness ==
    /\ runs = 2 /\ IsArray(aqiData) /\ Len(Circles(map)) >= 1
    /\ Len(aqiData.items) >= 1 /\ WellFormed(aqiData.items[1])
    /\ Len(once) >= 2

\* C11: a search with an empty or blank (whitespace-only) query sets the
\* candidate list to empty at once and issues no geocoding request.
C11_BlankQueryNoRequest ==
    [][\A q \in QueryPool :
          (Blank(q) /\ HandleSearch(q)) =>
              (searchResults' = <<>> /\ geocoding' = geocoding /\ searches' = searches)]_vars

\* C12: when the geocoding request fails, the candidate list is empty
\* afterwards, exactly one search-error notification is issued, and the
\* Dataset, the layers of every map and the map handle are as before.
C12_FailedSearchEmptiesList ==
    [][\A i \in 1..MaxSearchesAlone :
          HandleSearchResolved(i, FALSE, <<>>) =>
              /\ searchResults' = <<>>
              /\ toasts' = <<ToastSearch>>
              /\ aqiData' = aqiData /\ maps' = maps /\ map' = map]_vars

\* handleSelectLocation was called, whether or not it ran to its end
SelectionOps == {"handleSelectLocation", "handleSelectLocation throws"}

SelectedMarkers(i) == SelectSeq(maps[i].layers, LAMBDA l : l.cls = "Marker")

\* the marker of each candidate that has one, from the value of its
\* strings: 48.85, 2.35 and -12.04, -77.03
MarkerOfPlace ==
    { MkLayer("Marker", Num(4885), Num(235), Undefined, "Paris"),
      MkLayer("Marker", Num(0 - 1204), Num(0 - 7703), Undefined, "Lima") }

\* C13: when handleSelectLocation has completed, the candidate list is
\* empty and the live map carries exactly one selected-place marker, at the
\* parsed coordinate of the candidate; whatever the sequence of selections,
\* no map carries the marker of an earlier selection beside it.
C13_OneSelectedMarker ==
    /\ \A i \in 1..Len(maps) : Len(SelectedMarkers(i)) <= 1
    /\ last = "handleSelectLocation" =>
           /\ searchResults = <<>>
           /\ map # 0 =>
                  /\ Len(SelectedMarkers(map)) = 1
                  /\ SelectedMarkers(map)[1] \in MarkerOfPlace
                  /\ selectedLocation = <<SelectedMarkers(map)[1].lat, SelectedMarkers(map)[1].lon>>
                  /\ maps[map].center = selectedLocation

\* Lima was selected on the one map that already carried the marker of an
\* earlier selection
C13_Witness ==
    /\ last = "handleSelectLocation" /\ selects = 2
    /\ Len(maps) = 1 /\ map = 1 /\ Live(1)
    /\ Len(SelectedMarkers(1)) = 1 /\ SelectedMarkers(1)[1].name = "Lima"

\* C14: when the construction of the map throws, at the creation of the map
\* or at the attachment of the zoom control, the failure is reported with
\* one notification, mapInitialized stays false, the handle is empty and no
\* map object is left live.
C14_FailedConstructionLeavesNothing ==
    (last = "initEffect" /\ toasts # <<>>) =>
        /\ toasts = <<ToastInit>>
        /\ ~mapInitialized
        /\ map = 0
        /\ \A i \in 1..Len(maps) : maps[i].removed

\* the triggers of the user so far: the one unlock of the mount (the form
\* is gone once the gate is open) and the selections
UserTriggers == (IF showMap THEN 1 ELSE 0) + selects

\* C15: the controller issues no readings fetch of its own accord: the
\* number of fetches issued never exceeds the number of triggers of the user
\* (one for the unlock that initializes the map, one per selection).
C15_NoFetchWithoutTrigger == issued <= UserTriggers

NotOfKind(ls, kind) == SelectSeq(ls, LAMBDA l : l.cls # kind)

\* C16: the two kinds of marker are managed apart: a run of the
\* reconciliation leaves every layer that is not a reading marker, the
\* selected-place marker and its popup among them, on its map as it was,
\* and a selection, whether or not it ran to its end, leaves every layer
\* that is neither a selected-place marker nor the popup of one, the reading
\* markers among them, as it was.
C16_MarkerKindsDisjoint ==
    [][/\ last' = "reconcileEffect" =>
              /\ Len(maps') = Len(maps)
              /\ \A i \in 1..Len(maps) :
                     NotOfKind(maps'[i].layers, "CircleMarker") =
                         NotOfKind(maps[i].layers, "CircleMarker")
       /\ last' \in SelectionOps =>
              /\ Len(maps') = Len(maps)
              /\ \A i \in 1..Len(maps) :
                     NotOfKind(NotOfKind(maps'[i].layers, "Marker"), "Popup") =
                         NotOfKind(NotOfKind(maps[i].layers, "Marker"), "Popup")]_vars

\* a place was selected on a live map that carries a reading marker
C16_Witness ==
    /\ last = "handleSelectLocation" /\ map # 0 /\ Live(map)
    /\ Len(Circles(map)) >= 1
    /\ Len(SelectedMarkers(map)) = 1

\* the reconciliation created reading markers on a live map that carries a
\* selected-place marker
C16_WitnessReconcile ==
    /\ last = "reconcileEffect" /\ map # 0 /\ Live(map)
    /\ Len(Circles(map)) >= 1
    /\ Len(SelectedMarkers(map)) = 1

\* the coordinate of each candidate and the region around it, 0.18 degrees
\* to the south, west, north and east: the numbers that JavaScript writes
\* into the request as 48.67,2.17,49.03,2.5300000000000002 for Paris and
\* -12.219999999999999,-77.21000000000001,-11.86,-76.85 for Lima; of the
\* candidate without a latitude the south and the north are NaN
EastOfParis ==
    ParseFloat(<<"2", ".", "5", "3", "0", "0", "0", "0", "0", "0", "0", "0", "0",
                 "0", "0", "0", "0", "2">>)
SouthOfLima ==
    ParseFloat(<<"-", "1", "2", ".", "2", "1", "9", "9", "9", "9", "9", "9", "9",
                 "9", "9", "9", "9", "9", "9">>)
WestOfLima ==
    ParseFloat(<<"-", "7", "7", ".", "2", "1", "0", "0", "0", "0", "0", "0", "0",
                 "0", "0", "0", "0", "1">>)
Regions ==
    { [at |-> <<Num(4885), Num(235)>>,
       region |-> <<Num(4867), Num(217), Num(4903), EastOfParis>>],
      [at |-> <<Num(0 - 1204), Num(0 - 7703)>>,
       region |-> <<SouthOfLima, WestOfLima, Num(0 - 1186), Num(0 - 7685)>>],
      [at |-> <<NaN, Num(235)>>,
       region |-> <<NaN, Num(217), NaN, EastOfParis>>] }

\* C17: every call of handleSelectLocation issues exactly one readings
\* fetch, for the region around the parsed coordinate of the candidate and
\* with the credential accepted at unlock, whether or not a map is live;
\* with a live map the fetch is in flight once the map is centred on the
\* place.
C17_SelectionFetchesRegion ==
    /\ [](last \in SelectionOps =>
              /\ inflight # <<>>
              /\ inflight[Len(inflight)].id = issued
              /\ inflight[Len(inflight)].kind = "location"
              /\ [at |-> selectedLocation, region |-> inflight[Len(inflight)].bounds]
                     \in Regions
              /\ inflight[Len(inflight)].token = localStorage
              /\ ~Blank(localStorage)
              /\ map # 0 => (maps[map].center = selectedLocation /\ maps[map].zoom = 12))
    /\ [][last' \in SelectionOps =>
              /\ issued' = issued + 1
              /\ Len(inflight') = Len(inflight) + 1
              /\ SubSeq(inflight', 1, Len(inflight)) = inflight]_vars

\* C18: the Dataset is a list in every state, whatever the envelope of a
\* response holds in its data field: nothing, an empty list, a list, or a
\* value that is not a list such as an error string.
C18_DatasetIsList == IsArray(aqiData)

\* C19: whenever a map is live and no render or effect is pending, the
\* reading markers on it are exactly those of the valid readings of the
\* Dataset, in order; so a live map never shows no marker for a Dataset
\* with a valid reading, whether the Dataset arrived while no map was live
\* or the map was destroyed and constructed again after a reconciliation.
C19_LiveMapShowsDataset ==
    (map # 0 /\ Live(map) /\ pending = <<>> /\ dirty = "no" /\ IsArray(aqiData)) =>
        Circles(map) = ExpectedMarkers(aqiData.items)

====
